---- MODULE Spec2Model ----
(***************************************************************************)
(* Model of the UART VCU port mapper (UARTVCUPortMap.py) and of its        *)
(* verification script (testPortmap.py).                                   *)
(*                                                                         *)
(* Text is modelled as a sequence of one-character strings, so "3:1.0" is  *)
(* <<"3", ":", "1", ".", "0">>.  A regular expression is a sequence of     *)
(* tokens: ".*" (any run of characters), "." (any character), "\\." (a     *)
(* literal dot) and every other token a literal character.  Python's None  *)
(* is the empty sequence; an optional device path is None or <<n>>, where  *)
(* n stands for the device path /dev/ttyUSB<n> (COM<n> on Windows).        *)
(***************************************************************************)
EXTENDS Integers, Sequences, FiniteSets, TLC

\* ------------------------------------------------------------------ bounds
\* number of serial ports the operating system lists
MaxPorts == 3

\* --------------------------------------------------------------- constants
VID == 1027
PID == 24593
None == <<>>

\* dataclass field order of VCUPort
Channels == <<"HPA", "HIA", "HIB", "LPA", "SGA", "JUMPERS">>

ChannelSet == {Channels[j] : j \in 1..Len(Channels)}

\* ------------------------------------------------------------ text helpers
DigitChars == <<"0", "1", "2", "3", "4", "5", "6", "7", "8", "9">>

RECURSIVE DecStr(_)
\* str(n) of a natural number, as the f-string formats it
DecStr(n) ==
    IF n < Len(DigitChars) THEN <<DigitChars[n + 1]>>
    ELSE DecStr(n \div Len(DigitChars)) \o <<DigitChars[(n % Len(DigitChars)) + 1]>>

\* str(x) of an optional text: None prints as the four letters None
PyStr(x) == IF x = None THEN <<"N", "o", "n", "e">> ELSE x

\* code points of the characters a location path is made of
CharCode(c) ==
    CASE c = "-" -> 45
      [] c = "." -> 46
      [] c = "0" -> 48
      [] c = "1" -> 49
      [] c = "2" -> 50
      [] c = "3" -> 51
      [] c = "4" -> 52
      [] c = "5" -> 53
      [] c = "6" -> 54
      [] c = "7" -> 55
      [] c = "8" -> 56
      [] c = "9" -> 57
      [] c = ":" -> 58
      [] OTHER -> 127

RECURSIVE StrLess(_, _)
\* a < b for two Python strings: lexicographic by code point
StrLess(a, b) ==
    IF b = <<>> THEN FALSE
    ELSE IF a = <<>> THEN TRUE
    ELSE IF Head(a) # Head(b) THEN CharCode(Head(a)) < CharCode(Head(b))
    ELSE StrLess(Tail(a), Tail(b))

RECURSIVE SortedStrings(_)
\* sorted(S) of a set of strings
SortedStrings(S) ==
    IF S = {} THEN <<>>
    ELSE LET m == CHOOSE x \in S : \A y \in S \ {x} : StrLess(x, y)
         IN  <<m>> \o SortedStrings(S \ {m})

RECURSIVE SortedPorts(_)
\* sorted(ports): ListPortInfo orders ports by device path
SortedPorts(S) ==
    IF S = {} THEN <<>>
    ELSE LET m == CHOOSE x \in S : \A y \in S : x.device <= y.device
         IN  <<m>> \o SortedPorts(S \ {m})

\* ------------------------------------------------------ regular expressions
TokenMatches(tok, c) ==
    CASE tok = "."   -> c # "\n"
      [] tok = "\\." -> c = "."
      [] OTHER       -> tok = c

RECURSIVE MatchHere(_, _)
\* the regular expression re matches a prefix of s
MatchHere(re, s) ==
    IF re = <<>> THEN TRUE
    ELSE IF Head(re) = ".*"
         THEN \E k \in 0..Len(s) :
                 /\ \A j \in 1..k : s[j] # "\n"
                 /\ MatchHere(Tail(re), SubSeq(s, k + 1, Len(s)))
         ELSE /\ s # <<>>
              /\ TokenMatches(Head(re), Head(s))
              /\ MatchHere(Tail(re), Tail(s))

\* re.match(re, s) is not None: anchored at the start of s only
re_match(re, s) == MatchHere(re, s)

\* ------------------------------------------------------- Topology Resolver
\* rf".*{hub}:1\.{index}"
LocationPattern(hub, index) ==
    <<".*">> \o PyStr(hub) \o <<":", "1", "\\.">> \o DecStr(index)

\* list[0] if list else None
FirstHub(majors) == IF Len(majors) > 0 THEN majors[1] ELSE None

SecondHub_Last(majors) == IF Len(majors) > 1 THEN majors[Len(majors)] ELSE None

\* list[1] if len(list) > 1 else None
SecondHub(majors) == IF Len(majors) > 1 THEN majors[2] ELSE None

Add1IfWindows_Never(windows) == 0

\* 1 if PLATFORM_WINDOWS else 0
Add1IfWindows(windows) == IF windows THEN 1 ELSE 0

\* the table for two FTDI devices (Sisyphos board)
DualTable(FTDI1, FTDI2, add_1_if_windows) ==
    [c \in ChannelSet |->
        CASE c = "HPA"     -> LocationPattern(FTDI1, 0 + add_1_if_windows)
          [] c = "HIA"     -> LocationPattern(FTDI1, 3 + add_1_if_windows)
          [] c = "HIB"     -> LocationPattern(FTDI1, 2 + add_1_if_windows)
          [] c = "LPA"     -> LocationPattern(FTDI1, 1 + add_1_if_windows)
          [] c = "SGA"     -> LocationPattern(FTDI2, 0 + add_1_if_windows)
          [] c = "JUMPERS" -> LocationPattern(FTDI2, 1 + add_1_if_windows)]

SingleTable_AllSix(FTDI1, add_1_if_windows) ==
    [c \in ChannelSet |->
        CASE c = "HPA"     -> LocationPattern(FTDI1, 2 + add_1_if_windows)
          [] c = "HIA"     -> LocationPattern(FTDI1, 0 + add_1_if_windows)
          [] c = "HIB"     -> LocationPattern(FTDI1, 1 + add_1_if_windows)
          [] c = "LPA"     -> LocationPattern(FTDI1, 3 + add_1_if_windows)
          [] c = "SGA"     -> LocationPattern(FTDI1, 0 + add_1_if_windows)
          [] c = "JUMPERS" -> LocationPattern(FTDI1, 1 + add_1_if_windows)]

\* the table for one FTDI device (verC board)
SingleTable(FTDI1, add_1_if_windows) ==
    [c \in ChannelSet |->
        CASE c = "HPA"     -> LocationPattern(FTDI1, 2 + add_1_if_windows)
          [] c = "HIA"     -> LocationPattern(FTDI1, 0 + add_1_if_windows)
          [] c = "HIB"     -> LocationPattern(FTDI1, 1 + add_1_if_windows)
          [] c = "LPA"     -> LocationPattern(FTDI1, 3 + add_1_if_windows)
          [] c = "SGA"     -> None
          [] c = "JUMPERS" -> None]

get_location_regex(list_of_FTDI_major_location_numbers, windows) ==
    LET FTDI1 == FirstHub(list_of_FTDI_major_location_numbers)
        FTDI2 == SecondHub(list_of_FTDI_major_location_numbers)
        add_1_if_windows == Add1IfWindows(windows)
    IN  IF FTDI2 # None
        THEN DualTable(FTDI1, FTDI2, add_1_if_windows)
        ELSE SingleTable(FTDI1, add_1_if_windows)

\* -------------------------------------------------------- Topology Grouper
RECURSIVE SplitHead(_)
\* location.split(':')[0]
SplitHead(s) ==
    IF s = <<>> \/ Head(s) = ":" THEN <<>>
    ELSE <<Head(s)>> \o SplitHead(Tail(s))

get_FTDI_devices_major_number(ports) ==
    LET major_numbers ==
            {SplitHead(ports[j].location) :
                j \in {n \in 1..Len(ports) : ports[n].location # None}}
    IN  SortedStrings(major_numbers)

\* -------------------------------------------------------- Channel Assigner
SetAttr_KeepFirst(map, attr, device) ==
    IF map[attr] = None THEN [map EXCEPT ![attr] = <<device>>] ELSE map

\* setattr(port_map, attr, port.device)
SetAttr(map, attr, device) == [map EXCEPT ![attr] = <<device>>]

RECURSIVE AssignAttrs(_, _, _, _)
\* the inner loop of map_vcu_ports for one port, from attribute number j on
AssignAttrs(map, rx, port, j) ==
    IF j > Len(Channels) THEN map
    ELSE LET attr == Channels[j]
         IN  IF rx[attr] = None
             THEN AssignAttrs(map, rx, port, j + 1)
             ELSE IF re_match(rx[attr], PyStr(port.location))
                  THEN AssignAttrs(SetAttr(map, attr, port.device),
                                   rx, port, j + 1)
                  ELSE AssignAttrs(map, rx, port, j + 1)

ExitStatus_Inverted(found) == IF found THEN <<1>> ELSE <<0>>

\* main of the mapper: sys.exit(1) if not valid_ports, else sys.exit(0)
ExitStatus(found) == IF found THEN <<0>> ELSE <<1>>

\* ----------------------------------------------------- Verification Engine
READ_SIZE == 1024

\* the text "N/A" that stands for the device path of an unmapped channel
NotAvailable == <<0>>

Contains_AtStart(needle, haystack) ==
    /\ Len(needle) <= Len(haystack)
    /\ SubSeq(haystack, 1, Len(needle)) = needle

\* needle in haystack, for two Python strings
Contains(needle, haystack) ==
    \E k \in 0..(Len(haystack) - Len(needle)) :
        SubSeq(haystack, k + 1, k + Len(needle)) = needle

\* re.search(re, s) is not None: a match starting anywhere in s
re_search(re, s) == \E k \in 0..Len(s) : MatchHere(re, SubSeq(s, k + 1, Len(s)))

\* the command verify_uart_connection passes for each target
Command(uart_target) == IF uart_target = "HPA" THEN <<"u", "n", "a", "m", "e", " ", "-", "a">> ELSE <<>>

\* (command + "\r").encode()
ProbeBytes(command) == command \o <<"\r">>

\* r'DoIP-.* login:'
SGA_REGEX == <<"D", "o", "I", "P", "-">> \o <<".*">> \o <<" ", "l", "o", "g", "i", "n", ":">>

\* the second operand of "output and (...)" in verify_uart_connection
Signature(uart_target, output) ==
    CASE uart_target = "HPA" -> Contains(<<"Q", "N", "X", " ", "h", "p", "a">>, output)
      [] uart_target = "HIA" -> Contains(<<"G", "o", "F", "o", "r", "H", "I", "A", ">">>, output)
      [] uart_target = "LPA" -> Contains(<<"A", "t", "m", "e", "l", " ", "L", "P", "-", ">">>, output)
      [] uart_target = "SGA" -> re_search(SGA_REGEX, output)
      [] uart_target = "HIB" -> Contains(<<"G", "o", "F", "o", "r", "H", "I", "B", ">">>, output)
      [] OTHER -> FALSE

\* what verify_uart_connection returns, by its truth value, given what
\* send_command_to_serial_device returned for the target: None after a
\* SerialException, the decoded response otherwise.  JUMPERS sends nothing.
verify_uart_connection(uart_target, output) ==
    IF uart_target = "JUMPERS" THEN "NOT_IMPLEMENTED"
    ELSE IF output # None /\ output # <<>> /\ Signature(uart_target, output)
         THEN "truthy"
         ELSE "falsy"

ResultOf_TruthFirst(status) ==
    CASE status \in {"truthy", "NOT_IMPLEMENTED"} -> "PASS"
      [] OTHER -> "FAIL"

\* the result text main derives from the status
ResultOf(status) ==
    CASE status = "NOT_IMPLEMENTED" -> "NOT IMPLEMENTED"
      [] status = "truthy"          -> "PASS"
      [] OTHER                      -> "FAIL"

\* the text of a result as main builds it; "*" stands for the emoji in front
ResultText(result) ==
    CASE result = "PASS"            -> <<"*", " ", "P", "A", "S", "S">>
      [] result = "FAIL"            -> <<"*", " ", "F", "A", "I", "L">>
      [] result = "NOT IMPLEMENTED" -> <<"*", " ", " ", "N", "O", "T", " ", "I", "M", "P", "L", "E", "M", "E", "N", "T", "E", "D">>
      [] OTHER                      -> <<"N", "O", "T", " ", "M", "A", "P", "P", "E", "D">>

ActualTestable_All(total_testable, not_implemented) == total_testable

\* actual_testable = total_testable - not_implemented
ActualTestable(total_testable, not_implemented) ==
    total_testable - not_implemented

CloseHandle_Leak(handles, device) == handles

\* leaving the with block of send_command_to_serial_device closes the handle
CloseHandle(handles, device) == handles \ {device}

\* json.loads(result.stdout): the keys in the order they were printed, null
\* read back as None and a JSON string as its text
json_loads(text) ==
    [j \in 1..Len(text) |->
        <<text[j][1],
          IF text[j][2].type = "null" THEN None ELSE text[j][2].text>>]

\* bytes the device may answer with: valid UTF-8 text, or bytes that are not
Bytes(text) == [valid |-> TRUE, text |-> text]
InvalidBytes == [valid |-> FALSE, text |-> <<>>]

RespEmpty == <<>>
RespQNX == <<"Q", "N", "X", " ", "h", "p", "a", " ", "7">>
RespHIA == <<"\r", "\n", "G", "o", "F", "o", "r", "H", "I", "A", ">">>
RespHIB == <<"\r", "\n", "G", "o", "F", "o", "r", "H", "I", "B", ">">>
RespLPA == <<"A", "t", "m", "e", "l", " ", "L", "P", "-", ">">>
RespSGA == <<"\n", "D", "o", "I", "P", "-", "g", "w", " ", "l", "o", "g", "i", "n", ":", " ">>
RespDoIPOnly == <<"D", "o", "I", "P", "-", "g", "w">>
RespSplitLogin == <<"D", "o", "I", "P", "-", "g", "w", "\n", " ", "l", "o", "g", "i", "n", ":">>

Responses ==
    {RespEmpty, RespQNX, RespHIA, RespHIB, RespLPA, RespSGA, RespDoIPOnly,
     RespSplitLogin}

ReadData == {Bytes(r) : r \in Responses} \cup {InvalidBytes}

NoExchange ==
    [target |-> "", port |-> None, command |-> None, outcome |-> "none",
     response |-> None]

\* ------------------------------------------------------------------ inputs
Hub3 == <<"3">>
Hub5 == <<"5">>
Hub13 == <<"1", "3">>

Loc(hub, index) == hub \o <<":", "1", ".">> \o DecStr(index)

\* location paths the enumeration may report for a port of the FTDI hub
Locations ==
    {Loc(Hub3, n) : n \in {0, 1, 2, 3, 4, 10}}
        \cup {Loc(Hub13, n) : n \in {0, 1}}
        \cup {Loc(Hub5, n) : n \in {0, 1}}
        \cup {None}

Devices == 1..MaxPorts

\* a port of the board's hub, and a port of some other serial adapter
FTDIPort(d, loc) == [device |-> d, location |-> loc, vid |-> VID, pid |-> PID]
OtherPort(d) == [device |-> d, location |-> None, vid |-> VID, pid |-> PID + 1]

\* what the enumeration may report at one device path: nothing, a port of
\* another adapter, or a port of the board's hub at some location
PortOptions ==
    {[kind |-> "absent", location |-> None], [kind |-> "other", location |-> None]}
        \cup {[kind |-> "ftdi", location |-> loc] : loc \in Locations}

PortsAt(d, option) ==
    CASE option.kind = "absent" -> {}
      [] option.kind = "other"  -> {OtherPort(d)}
      [] option.kind = "ftdi"   -> {FTDIPort(d, option.location)}

\* every set of ports with pairwise distinct device paths
PortSets ==
    {UNION {PortsAt(d, f[d]) : d \in Devices} : f \in [Devices -> PortOptions]}

EmptyMap == [c \in ChannelSet |-> None]

\* how json.dumps prints an optional device path: null, or a JSON string
JsonValue(v) ==
    IF v = None THEN [type |-> "null", text |-> <<>>]
    ELSE [type |-> "string", text |-> v]

\* json.dumps(asdict(port_map)): the fields in declaration order
json_dumps(map) ==
    [j \in 1..Len(Channels) |-> <<Channels[j], JsonValue(map[Channels[j]])>>]

\* ------------------------------------------------------------------- state
VARIABLES
    PLATFORM_WINDOWS,   \* the host numbers hub sub-ports from one
    ports,              \* what serial.tools.list_ports.comports() returns
    mpc,                \* position of the mapper process
    valid_ports,        \* get_vcu_port_map: ports passing the vid/pid filter
    FTDI_devices,       \* map_vcu_ports: the sorted hub identifiers
    regex,              \* map_vcu_ports: the channel pattern table
    port_map,           \* map_vcu_ports: the VCUPort being filled
    i,                  \* map_vcu_ports: index of the port being scanned
    stdout,             \* the mapper's JSON output, as (key, JSON value) pairs
    exit_status,        \* the mapper's exit status, None while it runs
    vpc,                \* position of the verification script
    output,             \* testPortmap.main: the parsed mapping, or None
    k,                  \* testPortmap.main: index of the key under test
    test_results,       \* testPortmap.main: (key, port, result) per channel
    ser,                \* the serial device handles that are open
    exchange,           \* the latest call of send_command_to_serial_device
    summary             \* (passed, actual_testable) once printed, else None

mapper_vars == <<ports, mpc, valid_ports, FTDI_devices, regex, port_map, i,
                 stdout, exit_status>>

verifier_vars == <<vpc, output, k, test_results, ser, exchange, summary>>

vars == <<PLATFORM_WINDOWS, mapper_vars, verifier_vars>>

Init ==
    /\ PLATFORM_WINDOWS \in BOOLEAN
    /\ ports \in PortSets
    /\ mpc = "start"
    /\ valid_ports = <<>>
    /\ FTDI_devices = <<>>
    /\ regex = EmptyMap
    /\ port_map = EmptyMap
    /\ i = 0
    /\ stdout = None
    /\ exit_status = None
    /\ vpc = "start"
    /\ output = None
    /\ k = 0
    /\ test_results = <<>>
    /\ ser = {}
    /\ exchange = NoExchange
    /\ summary = None

\* ------------------------------------------------------------------ mapper
\* get_vcu_port_map: enumerate, sort and filter the ports
FilterPorts ==
    /\ mpc = "start"
    /\ valid_ports' = SelectSeq(SortedPorts(ports),
                                LAMBDA p : p.vid = VID /\ p.pid = PID)
    /\ mpc' = "filtered"
    /\ UNCHANGED <<PLATFORM_WINDOWS, ports, FTDI_devices, regex, port_map, i,
                   stdout, exit_status, verifier_vars>>

\* map_vcu_ports up to its loop: group the hubs and resolve the patterns
ResolveTopology ==
    /\ mpc = "filtered"
    /\ port_map' = EmptyMap
    /\ FTDI_devices' = get_FTDI_devices_major_number(valid_ports)
    /\ regex' = get_location_regex(FTDI_devices', PLATFORM_WINDOWS)
    /\ i' = 1
    /\ mpc' = "assign"
    /\ UNCHANGED <<PLATFORM_WINDOWS, ports, valid_ports, stdout, exit_status,
                   verifier_vars>>

\* one iteration of the loop over the ports in map_vcu_ports
AssignPort ==
    /\ mpc = "assign"
    /\ i <= Len(valid_ports)
    /\ port_map' = AssignAttrs(port_map, regex, valid_ports[i], 1)
    /\ i' = i + 1
    /\ UNCHANGED <<PLATFORM_WINDOWS, ports, mpc, valid_ports, FTDI_devices,
                   regex, stdout, exit_status, verifier_vars>>

\* map_vcu_ports returns once every port has been scanned
MapReturn ==
    /\ mpc = "assign"
    /\ i > Len(valid_ports)
    /\ mpc' = "mapped"
    /\ UNCHANGED <<PLATFORM_WINDOWS, ports, valid_ports, FTDI_devices, regex,
                   port_map, i, stdout, exit_status, verifier_vars>>

\* main of the mapper: print the map and exit
MapperExit ==
    /\ mpc = "mapped"
    /\ stdout' = json_dumps(port_map)
    /\ exit_status' = ExitStatus(valid_ports # <<>>)
    /\ mpc' = "exited"
    /\ UNCHANGED <<PLATFORM_WINDOWS, ports, valid_ports, FTDI_devices, regex,
                   port_map, i, verifier_vars>>

\* ---------------------------------------------------------------- verifier
key == output[k][1]
value == output[k][2]

\* a tested channel's entry is appended and the loop moves to the next key
Classified(port, result) ==
    /\ test_results' = Append(test_results, <<key, port, result>>)
    /\ k' = k + 1

\* execute_and_get_json_output returns: a non-zero exit status raises
\* CalledProcessError and leaves output None, so main tests nothing.  The
\* mapper process is gone; its output and exit status are what is left of it.
execute_and_get_json_output ==
    /\ vpc = "start"
    /\ mpc = "exited"
    /\ IF exit_status # <<0>>
       THEN /\ output' = None
            /\ vpc' = "done"
            /\ k' = k
       ELSE /\ output' = json_loads(stdout)
            /\ vpc' = "loop"
            /\ k' = 1
    /\ mpc' = "gone"
    /\ ports' = {}
    /\ valid_ports' = <<>>
    /\ FTDI_devices' = <<>>
    /\ regex' = EmptyMap
    /\ port_map' = EmptyMap
    /\ i' = 0
    /\ UNCHANGED <<PLATFORM_WINDOWS, stdout, exit_status, test_results, ser,
                   exchange, summary>>

\* main: a key whose value is None is reported without a test
TestNotMapped ==
    /\ vpc = "loop"
    /\ k <= Len(output)
    /\ value = None
    /\ Classified(NotAvailable, "NOT MAPPED")
    /\ UNCHANGED <<PLATFORM_WINDOWS, mapper_vars, vpc, output, ser, exchange,
                   summary>>

\* verify_uart_connection, case "JUMPERS": no command is sent
TestJumpers ==
    /\ vpc = "loop"
    /\ k <= Len(output)
    /\ value # None
    /\ key = "JUMPERS"
    /\ Classified(value, ResultOf(verify_uart_connection(key, None)))
    /\ UNCHANGED <<PLATFORM_WINDOWS, mapper_vars, vpc, output, ser, exchange,
                   summary>>

\* send_command_to_serial_device: serial.Serial(...) opens the device, or
\* raises SerialException, which is caught and makes the function return None
OpenDevice ==
    /\ vpc = "loop"
    /\ k <= Len(output)
    /\ value # None
    /\ key # "JUMPERS"
    /\ \/ /\ ser' = ser \cup {value[1]}
          /\ exchange' = [target |-> key, port |-> value, command |-> None,
                          outcome |-> "open", response |-> None]
          /\ vpc' = "opened"
          /\ UNCHANGED <<k, test_results>>
       \/ /\ exchange' = [target |-> key, port |-> value, command |-> None,
                          outcome |-> "open_error", response |-> None]
          /\ Classified(value, ResultOf(verify_uart_connection(key, None)))
          /\ UNCHANGED <<ser, vpc>>
    /\ UNCHANGED <<PLATFORM_WINDOWS, mapper_vars, output, summary>>

\* send_command_to_serial_device: ser.write(...); on SerialException the with
\* block closes the handle and the function returns None
WriteProbe ==
    /\ vpc = "opened"
    /\ \/ /\ exchange' = [exchange EXCEPT
                             !.command = ProbeBytes(Command(key)),
                             !.outcome = "written"]
          /\ vpc' = "written"
          /\ UNCHANGED <<k, test_results, ser>>
       \/ /\ exchange' = [exchange EXCEPT !.outcome = "write_error"]
          /\ ser' = CloseHandle(ser, value[1])
          /\ Classified(value, ResultOf(verify_uart_connection(key, None)))
          /\ vpc' = "loop"
    /\ UNCHANGED <<PLATFORM_WINDOWS, mapper_vars, output, summary>>

\* send_command_to_serial_device: ser.read(1024).decode().  The read returns
\* bytes (none on timeout) or raises SerialException; decode() raises
\* UnicodeDecodeError on bytes that are not UTF-8, which nothing catches.  The
\* with block closes the handle on every way out.
ReadResponse ==
    /\ vpc = "written"
    /\ ser' = CloseHandle(ser, value[1])
    /\ \/ \E data \in ReadData :
            IF data.valid
            THEN LET response == SubSeq(data.text, 1,
                                        IF Len(data.text) < READ_SIZE
                                        THEN Len(data.text) ELSE READ_SIZE)
                 IN  /\ exchange' = [exchange EXCEPT !.outcome = "read",
                                                     !.response = response]
                     /\ Classified(value,
                            ResultOf(verify_uart_connection(key, response)))
                     /\ vpc' = "loop"
            ELSE /\ exchange' = [exchange EXCEPT !.outcome = "decode_error"]
                 /\ vpc' = "crashed"
                 /\ UNCHANGED <<k, test_results>>
       \/ /\ exchange' = [exchange EXCEPT !.outcome = "read_error"]
          /\ Classified(value, ResultOf(verify_uart_connection(key, None)))
          /\ vpc' = "loop"
    /\ UNCHANGED <<PLATFORM_WINDOWS, mapper_vars, output, summary>>

\* main: the summary line after the loop
Summary ==
    /\ vpc = "loop"
    /\ k > Len(output)
    /\ LET n == 1..Len(test_results)
           passed ==
               Cardinality({j \in n :
                   Contains(<<"P", "A", "S", "S">>, ResultText(test_results[j][3]))})
           not_implemented ==
               Cardinality({j \in n :
                   Contains(<<"N", "O", "T", " ", "I", "M", "P", "L", "E", "M", "E", "N", "T", "E", "D">>,
                            ResultText(test_results[j][3]))})
           total_testable ==
               Cardinality({j \in n : test_results[j][2] # NotAvailable})
           actual_testable == ActualTestable(total_testable, not_implemented)
       IN  summary' = <<passed, actual_testable>>
    /\ vpc' = "done"
    /\ UNCHANGED <<PLATFORM_WINDOWS, mapper_vars, output, k, test_results, ser,
                   exchange>>

Next ==
    \/ FilterPorts
    \/ ResolveTopology
    \/ AssignPort
    \/ MapReturn
    \/ MapperExit
    \/ execute_and_get_json_output
    \/ TestNotMapped
    \/ TestJumpers
    \/ OpenDevice
    \/ WriteProbe
    \/ ReadResponse
    \/ Summary

Spec == Init /\ [][Next]_vars

\* ============================================================ properties
\* the pattern table is in force from the resolution until the process is gone
Resolved == mpc \in {"assign", "mapped", "exited"}

\* the distinct hub identifiers among the candidate ports
HubsOf(candidates) ==
    {SplitHead(candidates[n].location) :
        n \in {m \in 1..Len(candidates) : candidates[m].location # None}}

\* the candidate ports, by position, whose location matches channel c's pattern
MatchingPorts(c) ==
    {n \in 1..Len(valid_ports) :
        re_match(regex[c], PyStr(valid_ports[n].location))}

Lowest(S) == CHOOSE n \in S : \A m \in S : n <= m
Highest(S) == CHOOSE n \in S : \A m \in S : n >= m

\* C1 as stated: when two or more candidate ports match a channel's pattern,
\* the channel holds the device path of the first of them in the sort order.
C1_FirstMatchWins ==
    mpc = "mapped" =>
        \A c \in ChannelSet :
            (regex[c] # None /\ Cardinality(MatchingPorts(c)) >= 2)
                => port_map[c] = <<valid_ports[Lowest(MatchingPorts(c))].device>>

\* C1 amended: when two or more candidate ports match a channel's pattern, the
\* channel holds the device path of the last of them in the sort order.
C1_LastMatchWins ==
    mpc = "mapped" =>
        \A c \in ChannelSet :
            (regex[c] # None /\ Cardinality(MatchingPorts(c)) >= 2)
                => port_map[c] = <<valid_ports[Highest(MatchingPorts(c))].device>>

C1_Witness ==
    /\ mpc = "mapped"
    /\ \E c \in ChannelSet :
          /\ regex[c] # None
          /\ Cardinality(MatchingPorts(c)) >= 2
          /\ port_map[c] # None

AnyMapped == \E c \in ChannelSet : port_map[c] # None

\* C2 as stated: the mapper exits with status 0 exactly when at least one of
\* the six channels is mapped.
C2_ExitZeroIffMapped ==
    mpc = "exited" => (exit_status = <<0>> <=> AnyMapped)

\* C2 amended: the mapper exits with status 0 exactly when at least one port
\* passes the vendor/product filter; a mapped channel implies status 0, and
\* with no port passing the filter the mapping is all null and the status 1.
C2_ExitZeroIffValidPorts ==
    mpc = "exited" =>
        /\ exit_status = <<0>> <=> valid_ports # <<>>
        /\ exit_status \in {<<0>>, <<1>>}
        /\ AnyMapped => exit_status = <<0>>
        /\ valid_ports = <<>> => (~AnyMapped /\ exit_status = <<1>>)

C2_Witness ==
    /\ mpc = "exited"
    /\ valid_ports # <<>>
    /\ ~AnyMapped
    /\ exit_status = <<0>>

\* the reference wiring: which hub of the set and which offset a channel has
RefDualHub ==
    [HPA |-> 1, LPA |-> 1, HIB |-> 1, HIA |-> 1, SGA |-> 2, JUMPERS |-> 2]
RefDualOffset ==
    [HPA |-> 0, LPA |-> 1, HIB |-> 2, HIA |-> 3, SGA |-> 0, JUMPERS |-> 1]
RefSingleOffset == [HIA |-> 0, HIB |-> 1, HPA |-> 2, LPA |-> 3]

RefBase(windows) == IF windows THEN 1 ELSE 0

\* the reference table for a hub set, as patterns
RefTable(majors, windows) ==
    [c \in ChannelSet |->
        IF Len(majors) >= 2
        THEN LocationPattern(majors[RefDualHub[c]],
                             RefBase(windows) + RefDualOffset[c])
        ELSE IF c \in DOMAIN RefSingleOffset
             THEN LocationPattern(majors[1],
                                  RefBase(windows) + RefSingleOffset[c])
             ELSE None]

\* C3: with one hub or two, the resolved pattern table is the reference wiring
\* table at the platform's base, and the table for shifted numbering is the
\* reference table one index above the table for native numbering.
C3_WiringTable ==
    (Resolved /\ Len(FTDI_devices) \in {1, 2}) =>
        /\ regex = RefTable(FTDI_devices, PLATFORM_WINDOWS)
        /\ \A w \in BOOLEAN :
              get_location_regex(FTDI_devices, w) = RefTable(FTDI_devices, w)

C3_Witness ==
    /\ mpc = "mapped"
    /\ PLATFORM_WINDOWS
    /\ Len(FTDI_devices) = 2
    /\ port_map["HIA"] # None
    /\ port_map["SGA"] # None

\* the location a port must have to sit on channel c's hub at its index
RefLocation(c) ==
    IF Len(FTDI_devices) >= 2
    THEN Loc(FTDI_devices[RefDualHub[c]],
             RefBase(PLATFORM_WINDOWS) + RefDualOffset[c])
    ELSE IF Len(FTDI_devices) = 1 /\ c \in DOMAIN RefSingleOffset
         THEN Loc(FTDI_devices[1],
                  RefBase(PLATFORM_WINDOWS) + RefSingleOffset[c])
         ELSE None

\* C4: a channel only ever holds the device of a port whose location is the
\* channel's hub identifier, the separator and exactly the channel's index.
C4_OnlyOwnHubAndIndex ==
    mpc = "mapped" =>
        \A c \in ChannelSet : \A n \in 1..Len(valid_ports) :
            port_map[c] = <<valid_ports[n].device>>
                => valid_ports[n].location = RefLocation(c)

\* C5: with no hub identifier at all, no channel has a pattern.
C5_EmptySetNoPattern ==
    (Resolved /\ FTDI_devices = <<>>) =>
        \A c \in ChannelSet : regex[c] = None

\* C6: with exactly one distinct hub identifier among the candidate ports, SGA
\* and JUMPERS are null in the map, at every point of the assignment.
C6_SingleHubNoSgaJumpers ==
    (Resolved /\ Cardinality(HubsOf(valid_ports)) = 1) =>
        /\ port_map["SGA"] = None
        /\ port_map["JUMPERS"] = None

C6_Witness ==
    /\ mpc = "mapped"
    /\ Cardinality(HubsOf(valid_ports)) = 1
    /\ Len(valid_ports) >= 2
    /\ \E n \in 1..Len(valid_ports) :
          valid_ports[n].location \in {Loc(Hub3, 0), Loc(Hub3, 1)}
    /\ AnyMapped

\* the indices a pattern of either table can carry
PatternIndices == 0..(Cardinality(DOMAIN RefSingleOffset))

C8_JumpersAlwaysNotImplemented ==
    /\ \A n \in 1..Len(test_results) :
          test_results[n][1] = "JUMPERS"
              => test_results[n][3] = "NOT IMPLEMENTED"
    /\ exchange.target # "JUMPERS"
    /\ ser # {} => key # "JUMPERS"

\* C8 amended: the entry for JUMPERS is NOT IMPLEMENTED when the channel is
\* mapped and NOT MAPPED when it is null, whatever a device would answer, and no
\* device is opened and no probe written for JUMPERS.
C8_JumpersVerdict ==
    /\ \A n \in 1..Len(test_results) :
          test_results[n][1] = "JUMPERS" =>
              /\ output[n][1] = "JUMPERS"
              /\ test_results[n][3] = IF output[n][2] = None
                                      THEN "NOT MAPPED"
                                      ELSE "NOT IMPLEMENTED"
    /\ exchange.target # "JUMPERS"
    /\ ser # {} => key # "JUMPERS"

C8_Witness ==
    \E n \in 1..Len(test_results) :
        /\ test_results[n][1] = "JUMPERS"
        /\ output[n][2] # None
        /\ test_results[n][3] = "NOT IMPLEMENTED"

\* the responses that carry a channel's signature
ExpectedPass ==
    {<<"HPA", RespQNX>>, <<"HIA", RespHIA>>, <<"HIB", RespHIB>>,
     <<"LPA", RespLPA>>, <<"SGA", RespSGA>>}

\* the bytes written to a channel
ExpectedProbe(c) ==
    IF c = "HPA"
    THEN <<"u", "n", "a", "m", "e", " ", "-", "a", "\r">>
    ELSE <<"\r">>

ProbedChannels == {"HPA", "HIA", "HIB", "LPA", "SGA"}

C10_FailureIsLocal ==
    /\ vpc # "crashed"
    /\ exchange.outcome \in {"open_error", "write_error", "read_error",
                             "decode_error"}
          => \E n \in 1..Len(test_results) :
                test_results[n] = <<exchange.target, exchange.port, "FAIL">>
    /\ (vpc = "done" /\ output # None) => Len(test_results) = Len(output)

\* the entries recorded for channel c
EntriesOf(c) == {n \in 1..Len(test_results) : test_results[n][1] = c}

Verdicts == {"PASS", "FAIL", "NOT MAPPED", "NOT IMPLEMENTED"}

\* C11: no channel is ever classified twice, every entry is one of the four
\* verdicts, and once the verification run has ended each of the six channels
\* has exactly one entry, whatever the mapping and the transport did.
C11_VerdictTotality ==
    /\ \A c \in ChannelSet : Cardinality(EntriesOf(c)) <= 1
    /\ \A n \in 1..Len(test_results) : test_results[n][3] \in Verdicts
    /\ vpc \in {"done", "crashed"} =>
          \A c \in ChannelSet : Cardinality(EntriesOf(c)) = 1

\* C12: the summary's numerator is the number of PASS entries, its denominator
\* the number of channels that are mapped and are not NOT IMPLEMENTED, so
\* unmapped and not-implemented channels are left out of the denominator and
\* the numerator never exceeds it.
C12_SummaryCounts ==
    summary # None =>
        LET n == 1..Len(test_results)
        IN  /\ summary[1] =
                  Cardinality({j \in n : test_results[j][3] = "PASS"})
            /\ summary[2] =
                  Cardinality({j \in n :
                      /\ output[j][2] # None
                      /\ test_results[j][3] # "NOT IMPLEMENTED"})
            /\ summary[2] =
                  Cardinality({j \in n : test_results[j][3] \in {"PASS", "FAIL"}})
            /\ summary[1] <= summary[2]

C12_Witness ==
    /\ summary # None
    /\ summary[1] >= 1
    /\ summary[2] > summary[1]
    /\ \E j \in 1..Len(test_results) : test_results[j][3] = "NOT IMPLEMENTED"
    /\ \E j \in 1..Len(test_results) : test_results[j][3] = "NOT MAPPED"

\* C13: at most one serial device handle is open at any time; a handle is open
\* only while its own channel's exchange is under way, so it is closed before
\* the loop turns to the next channel and when the run has ended, whether the
\* exchange returned a response, timed out or failed.
C13_OneHandleScoped ==
    /\ Cardinality(ser) <= 1
    /\ vpc \in {"start", "loop", "done", "crashed"} => ser = {}
    /\ ser # {} =>
          /\ vpc \in {"opened", "written"}
          /\ exchange.target = key
          /\ ser = {exchange.port[1]}

C13_Witness ==
    /\ vpc = "loop"
    /\ ser = {}
    /\ exchange.outcome = "read_error"
    /\ \E n \in 1..Len(test_results) :
          /\ test_results[n][1] # exchange.target
          /\ test_results[n][3] \in {"PASS", "FAIL"}

DigitValue(c) == CHOOSE d \in 0..(Len(DigitChars) - 1) : DigitChars[d + 1] = c

RECURSIVE HubNumber(_)
\* the integer a hub identifier spells
HubNumber(h) ==
    IF h = <<>> THEN 0
    ELSE HubNumber(SubSeq(h, 1, Len(h) - 1)) * Len(DigitChars)
            + DigitValue(h[Len(h)])

\* C14: the grouper returns the distinct hub identifiers of the ports that
\* have a location path, each exactly once, in ascending order of the integer
\* the identifier spells.
C14_GrouperAscending ==
    Resolved =>
        /\ {FTDI_devices[n] : n \in 1..Len(FTDI_devices)} = HubsOf(valid_ports)
        /\ Len(FTDI_devices) = Cardinality(HubsOf(valid_ports))
        /\ \A m, n \in 1..Len(FTDI_devices) :
              m < n => HubNumber(FTDI_devices[m]) < HubNumber(FTDI_devices[n])

\* C15: the candidate ports have pairwise distinct device paths, and no device
\* path is the value of two channels of the map that is returned.
C15_NoDeviceTwice ==
    mpc = "mapped" =>
        \A c1, c2 \in ChannelSet :
            (c1 # c2 /\ port_map[c1] # None) => port_map[c1] # port_map[c2]

====
